---- MODULE Spec2Model ----
(***************************************************************************)
(* A model of srg_rm_copilot/etl.py: the daily Wheelhouse ETL.             *)
(*                                                                         *)
(*   _get_with_retry       GET with retry and exponential backoff on 429   *)
(*   _extract_listing_ids  the listings payload as a list of string IDs    *)
(*   etl                   resolve the date, read the environment, fetch   *)
(*                         the listings, then per listing fetch, normalize *)
(*                         and write data/raw/{id}/{date}.parquet          *)
(*                                                                         *)
(* Decoded JSON is a tagged record [t, v]; a Python dict is the sequence   *)
(* of its (key, value) pairs in insertion order.  A response is a status   *)
(* code and a decoded body.  The disk is the function `files` from paths   *)
(* to the rows of the table stored there.                                  *)
(***************************************************************************)
EXTENDS Integers, Sequences, FiniteSets, TLC

(***************************************************************************)
(* Bounds of the model.                                                    *)
(***************************************************************************)
MaxRetriesBound == 4    \* direct calls use max_retries in MinRetries..MaxRetriesBound
MaxBackoff == 3         \* direct calls use backoff_factor in 0..MaxBackoff
MaxListings == 2        \* listings payloads of the run hold at most this many entries
MaxRecords == 2         \* metrics payloads of the run hold at most this many records
MaxLen == 2             \* payload lists handed to _extract_listing_ids alone

None == [t |-> "none"]  \* Python's None for an absent argument or variable

(***************************************************************************)
(* Decoded JSON values.                                                    *)
(***************************************************************************)
JNull == [t |-> "null", v |-> 0]
JBool(b) == [t |-> "bool", v |-> b]
JNum(n) == [t |-> "num", v |-> n]
JStr(s) == [t |-> "str", v |-> s]
JList(s) == [t |-> "list", v |-> s]
JDict(s) == [t |-> "dict", v |-> s]
KV(k, x) == [k |-> k, val |-> x]

IsList(j) == j.t = "list"          \* isinstance(j, list)
IsDict(j) == j.t = "dict"          \* isinstance(j, dict)
HasKey(j, k) == \E i \in 1..Len(j.v) : j.v[i].k = k      \* k in j
Get(j, k) ==                                              \* j.get(k)
  IF HasKey(j, k)
  THEN j.v[CHOOSE i \in 1..Len(j.v) : j.v[i].k = k].val
  ELSE JNull
Keys(j) == [i \in 1..Len(j.v) |-> j.v[i].k]               \* list(j.keys())

RECURSIVE Repr(_)
RECURSIVE ReprItems(_, _)
\* repr() of the elements of a list or dict, joined by ", "
ReprItems(s, isDict) ==
  IF s = <<>> THEN ""
  ELSE LET h == IF isDict
                THEN "'" \o Head(s).k \o "': " \o Repr(Head(s).val)
                ELSE Repr(Head(s))
       IN IF Len(s) = 1 THEN h ELSE h \o ", " \o ReprItems(Tail(s), isDict)
\* Python's repr() of a decoded JSON value
Repr(j) ==
  CASE j.t = "null" -> "None"
    [] j.t = "bool" -> IF j.v THEN "True" ELSE "False"
    [] j.t = "num" -> ToString(j.v)
    [] j.t = "str" -> "'" \o j.v \o "'"
    [] j.t = "list" -> "[" \o ReprItems(j.v, FALSE) \o "]"
    [] j.t = "dict" -> "{" \o ReprItems(j.v, TRUE) \o "}"
\* Python's str(): a string is itself, anything else prints as its repr
Str(j) == IF j.t = "str" THEN j.v ELSE Repr(j)

(***************************************************************************)
(* _extract_listing_ids                                                    *)
(***************************************************************************)
\* mutant of ItemId: the element itself is stringified, id or not
ItemId_Whole(item) == Str(item)

\* one element of the list: its "id" field if it is a dict that has one
ItemId(item) ==
  IF IsDict(item) /\ HasKey(item, "id") THEN Str(Get(item, "id")) ELSE Str(item)

ItemIds(s) == [i \in 1..Len(s) |-> ItemId(s[i])]

\* mutant of _extract_listing_ids: a payload of another type is one ID
_extract_listing_ids_Scalar(listings_json) ==
  IF IsList(listings_json) THEN ItemIds(listings_json.v)
  ELSE IF IsDict(listings_json)
  THEN LET results == Get(listings_json, "results")
       IN IF IsList(results) THEN ItemIds(results.v)
          ELSE Keys(listings_json)
  ELSE <<Str(listings_json)>>

\* mutant of _extract_listing_ids: a `results` that is no list gives no ID
_extract_listing_ids_NoFallback(listings_json) ==
  IF IsList(listings_json) THEN ItemIds(listings_json.v)
  ELSE IF IsDict(listings_json)
  THEN LET results == Get(listings_json, "results")
       IN IF IsList(results) THEN ItemIds(results.v)
          ELSE IF HasKey(listings_json, "results") THEN <<>>
          ELSE Keys(listings_json)
  ELSE <<>>

_extract_listing_ids(listings_json) ==
  IF IsList(listings_json) THEN ItemIds(listings_json.v)
  ELSE IF IsDict(listings_json)
  THEN LET results == Get(listings_json, "results")
       IN IF IsList(results) THEN ItemIds(results.v)
          ELSE Keys(listings_json)
  ELSE <<>>

(***************************************************************************)
(* Python values of the run: strings, dicts of strings, None.              *)
(***************************************************************************)
PyStr(s) == [t |-> "str", v |-> s]
PyDict(s) == [t |-> "dict", v |-> s]
\* an environment value that is a URL: `v` followed by `slashes` trailing "/"
PyUrl(s, n) == [t |-> "str", v |-> s, slashes |-> n]

\* mutant of Truthy: only None is false (`is not None` for `if x:`)
Truthy_NotNone(x) == x.t # "none"

\* truthiness, as `if x:` / `x or y` / `not x` read it
Truthy(x) ==
  CASE x.t = "none" -> FALSE
    [] x.t = "str" -> Len(x.v) > 0 \/ ("slashes" \in DOMAIN x /\ x.slashes > 0)
    [] x.t = "dict" -> Len(x.v) > 0
    [] OTHER -> TRUE

(***************************************************************************)
(* Dates: datetime.strptime(date, "%Y-%m-%d").date(), date.today() minus   *)
(* one day, and str(date).  A --date argument is the sequence of its       *)
(* characters.                                                             *)
(***************************************************************************)
Digits == <<"0", "1", "2", "3", "4", "5", "6", "7", "8", "9">>
IsDigit(c) == \E i \in 1..10 : Digits[i] = c
DigitVal(c) == (CHOOSE i \in 1..10 : Digits[i] = c) - 1

RECURSIVE NumVal(_)
NumVal(s) == IF s = <<>> THEN 0 ELSE 10 * NumVal(SubSeq(s, 1, Len(s) - 1)) + DigitVal(s[Len(s)])

AllDigits(s) == s # <<>> /\ \A i \in 1..Len(s) : IsDigit(s[i])

IsLeap(y) == (y % 4 = 0 /\ y % 100 # 0) \/ y % 400 = 0
DaysInMonth(y, m) ==
  IF m = 2 THEN (IF IsLeap(y) THEN 29 ELSE 28)
  ELSE IF m \in {4, 6, 9, 11} THEN 30 ELSE 31

Date(y, m, d) == [y |-> y, m |-> m, d |-> d]
NoDate == Date(0, 0, 0)

\* the positions of "-" in s
Dashes(s) == {i \in 1..Len(s) : s[i] = "-"}

\* strptime(s, "%Y-%m-%d"): four digits, "-", a month of one or two digits,
\* "-", a day of one or two digits, and the date must exist; NoDate stands
\* for ValueError
Strptime(s) ==
  IF Cardinality(Dashes(s)) # 2 THEN NoDate
  ELSE LET a == CHOOSE i \in Dashes(s) : \A j \in Dashes(s) : i <= j
           b == CHOOSE i \in Dashes(s) : \A j \in Dashes(s) : j <= i
           ys == SubSeq(s, 1, a - 1)
           ms == SubSeq(s, a + 1, b - 1)
           ds == SubSeq(s, b + 1, Len(s))
       IN IF /\ AllDigits(ys) /\ AllDigits(ms) /\ AllDigits(ds)
             /\ Len(ys) = 4 /\ Len(ms) <= 2 /\ Len(ds) <= 2
             /\ NumVal(ys) >= 1
             /\ NumVal(ms) \in 1..12
             /\ NumVal(ds) \in 1..DaysInMonth(NumVal(ys), NumVal(ms))
          THEN Date(NumVal(ys), NumVal(ms), NumVal(ds))
          ELSE NoDate

\* today - timedelta(days=1)
Yesterday(today) ==
  IF today.d > 1 THEN Date(today.y, today.m, today.d - 1)
  ELSE IF today.m > 1 THEN Date(today.y, today.m - 1, DaysInMonth(today.y, today.m - 1))
  ELSE Date(today.y - 1, 12, 31)

Pad(n, w) ==
  LET s == ToString(n)
  IN IF Len(s) >= w THEN s
     ELSE IF Len(s) = w - 1 THEN "0" \o s
     ELSE IF Len(s) = w - 2 THEN "00" \o s
     ELSE "000" \o s
\* str(target_date): ISO format, zero padded
DateStr(d) == Pad(d.y, 4) \o "-" \o Pad(d.m, 2) \o "-" \o Pad(d.d, 2)

(***************************************************************************)
(* State.                                                                  *)
(***************************************************************************)
VARIABLES
  \* the invocation and its environment
  date,             \* the --date argument: None or PyStr of its characters
  env_base_url,     \* os.environ.get("WHEELHOUSE_BASE_URL")
  env_api_key,      \* os.environ.get("WHEELHOUSE_API_KEY")
  today,            \* date.today(), the local calendar date of the run
  files,            \* the disk: path |-> the table stored there
  mode,             \* the upstream: "live", or "record" / "replay" of a tape
  tape,             \* the responses served while recording
  first_run_files,  \* the disk as the recorded run left it
  \* etl
  pc,               \* where etl stands
  target_date,
  base_url,
  headers,
  listings_json,
  listing_ids,
  i,                \* the position of listing_id in listing_ids
  exit_code,        \* the status the process exits with; NotExited before
  \* _get_with_retry
  url,
  f_headers,
  params,
  max_retries,
  backoff_factor,
  attempt,
  response,
  fstate,           \* "idle", "running", "returned" or "raised"
  result,           \* the value returned
  \* history
  trace,            \* the current call: <<"get", status>> and <<"sleep", delay>>
  nrequests,        \* the number of requests the run has sent
  request,          \* the last of them, as sent
  written           \* every to_parquet of the run: [path, table, rows]

inputs == <<date, env_base_url, env_api_key, today>>
upstream == <<mode, tape, first_run_files>>
locals == <<target_date, base_url, headers, listings_json, listing_ids, i>>
callArgs == <<url, f_headers, params, max_retries, backoff_factor>>
callVars == <<attempt, response, fstate, result, trace>>
requests == <<nrequests, request>>
vars == <<inputs, upstream, files, pc, exit_code, locals, callArgs, callVars,
          requests, written>>

NotExited == 0 - 1
NoResponse == [status_code |-> 0, body |-> JNull]
NoFiles == [p \in {} |-> <<>>]
NoRequest == [url |-> "", headers |-> None, params |-> None]

(***************************************************************************)
(* The upstream API: a response is a status code and a decoded body.       *)
(***************************************************************************)
SuccessCodes == {200, 201}
ErrorCodes == {404, 500}
RateLimited == 429

\* the responses with a success status of ok and a body of bodies, and the
\* error responses, whose body is not read
Responses(ok, bodies) ==
  [status_code : ok, body : bodies]
    \cup [status_code : ErrorCodes \cup {RateLimited}, body : {JNull}]

(***************************************************************************)
(* _get_with_retry: one iteration of its `while True` loop.                *)
(***************************************************************************)
DefaultMaxRetries == 3
DefaultBackoffFactor == 1

\* `headers or {}`
HeadersOrEmpty(h) == IF Truthy(h) THEN h ELSE PyDict(<<>>)

\* mutants of ShouldRetry: one retry too few, one too many, a retry on any error
ShouldRetry_OneLess(status_code, att, maxr) == status_code = 429 /\ att < maxr - 2
ShouldRetry_OneMore(status_code, att, maxr) == status_code = 429 /\ att < maxr
ShouldRetry_AnyError(status_code, att, maxr) == status_code >= 400 /\ att < maxr - 1

\* mutant of ShouldRetry: the last attempt is found by equality
ShouldRetry_NotLast(status_code, att, maxr) == status_code = 429 /\ att # maxr - 1

\* response.status_code == 429 and attempt < max_retries - 1
ShouldRetry(status_code, att, maxr) == status_code = 429 /\ att < maxr - 1

\* mutant of Delay: a delay that grows linearly
Delay_Linear(att, factor) == (att + 1) * factor

\* (2 ** attempt) * backoff_factor
Delay(att, factor) == (2 ^ att) * factor

\* response.raise_for_status() raises: a 4xx or 5xx status
RaisesForStatus(status_code) == status_code >= 400 /\ status_code <= 599

\* the state of the call after the response r to this iteration's request
AfterResponse(r) ==
  IF ShouldRetry(r.status_code, attempt, max_retries)
  THEN [attempt |-> attempt + 1,
        fstate |-> "running",
        result |-> result,
        trace |-> trace \o << <<"get", r.status_code>>,
                              <<"sleep", Delay(attempt, backoff_factor)>> >>]
  ELSE [attempt |-> attempt,
        fstate |-> IF RaisesForStatus(r.status_code) THEN "raised" ELSE "returned",
        result |-> IF RaisesForStatus(r.status_code) THEN result ELSE r.body,
        trace |-> Append(trace, <<"get", r.status_code>>)]

\* client.get(url, headers=headers or {}, params=params), answered by r,
\* and the rest of the iteration
GetWithRetryStep(r) ==
  /\ fstate = "running"
  /\ nrequests' = nrequests + 1
  /\ request' = [url |-> url, headers |-> HeadersOrEmpty(f_headers), params |-> params]
  /\ tape' = IF mode = "record" THEN Append(tape, r) ELSE tape
  /\ response' = r
  /\ attempt' = AfterResponse(r).attempt
  /\ fstate' = AfterResponse(r).fstate
  /\ result' = AfterResponse(r).result
  /\ trace' = AfterResponse(r).trace
  /\ UNCHANGED <<callArgs, mode, first_run_files>>

\* _get_with_retry has returned to its caller: its frame is gone
Returned ==
  /\ fstate = "returned"
  /\ attempt' = 0 /\ response' = NoResponse /\ fstate' = "idle" /\ trace' = <<>>

\* mutant of Call: the attempts are counted over the run, every 429 the run
\* has got so far (its requests but the i answered without one) included
Call_RunBudget(u, h, p, m, b) ==
  /\ url' = u /\ f_headers' = h /\ params' = p
  /\ max_retries' = m /\ backoff_factor' = b
  /\ attempt' = nrequests - i
  /\ response' = NoResponse
  /\ fstate' = "running"
  /\ result' = None
  /\ trace' = <<>>

\* entering _get_with_retry(client, u, headers=h, params=p, max_retries=m,
\* backoff_factor=b)
Call(u, h, p, m, b) ==
  /\ url' = u /\ f_headers' = h /\ params' = p
  /\ max_retries' = m /\ backoff_factor' = b
  /\ attempt' = 0
  /\ response' = NoResponse
  /\ fstate' = "running"
  /\ result' = None
  /\ trace' = <<>>

(***************************************************************************)
(* A direct call of _get_with_retry, with any max_retries and              *)
(* backoff_factor.                                                         *)
(***************************************************************************)
MinRetries == 0 - 1
DirectBodies == {JNull, JList(<<>>), JList(<<JNum(1)>>), JDict(<<KV("results", JList(<<>>))>>)}

InitDirect ==
  /\ date = None /\ env_base_url = None /\ env_api_key = None
  /\ today = NoDate
  /\ files = NoFiles
  /\ mode = "live" /\ tape = <<>> /\ first_run_files = NoFiles
  /\ pc = "direct" /\ exit_code = NotExited
  /\ target_date = NoDate /\ base_url = None /\ headers = None
  /\ listings_json = None /\ listing_ids = <<>> /\ i = 0
  /\ url = "http://api/listings"
  /\ f_headers \in {None, PyDict(<<KV("Authorization", "Bearer tok")>>)}
  /\ params = None
  /\ max_retries \in MinRetries..MaxRetriesBound
  /\ backoff_factor \in 0..MaxBackoff
  /\ attempt = 0 /\ response = NoResponse /\ fstate = "running"
  /\ result = None /\ trace = <<>>
  /\ nrequests = 0 /\ request = NoRequest /\ written = <<>>

DirectStep ==
  /\ pc = "direct"
  /\ \E r \in Responses(SuccessCodes, DirectBodies) : GetWithRetryStep(r)
  /\ UNCHANGED <<inputs, files, pc, exit_code, locals, written>>

NextDirect == DirectStep

SpecFetch == InitDirect /\ [][NextDirect]_vars

\* the same, where the call goes on as long as it has an iteration to make:
\* every request gets a response and the loop takes its next step
SpecFetchLive == InitDirect /\ [][NextDirect]_vars /\ WF_vars(DirectStep)

(***************************************************************************)
(* The invocations of etl: the --date argument, the clock and the          *)
(* environment.  Each input varies on its own around the baseline.         *)
(***************************************************************************)
Dates ==
  {None, PyStr(<<>>),
   PyStr(<<"2", "0", "2", "5", "-", "0", "7", "-", "0", "1">>),        \* 2025-07-01
   PyStr(<<"2", "0", "2", "5", "-", "7", "-", "1">>),        \* 2025-7-1
   PyStr(<<"2", "0", "2", "5", "-", "0", "2", "-", "2", "9">>),        \* 2025-02-29
   PyStr(<<"2", "0", "2", "5", "-", "1", "3", "-", "0", "1">>),        \* 2025-13-01
   PyStr(<<"0", "7", "/", "0", "1", "/", "2", "0", "2", "5">>),        \* 07/01/2025
   PyStr(<<"2", "0", "2", "5", "0", "7", "0", "1">>),        \* 20250701
   PyStr(<<"2", "0", "2", "5", "-", "0", "7", "-", "0", "1", "T", "0", "0">>)}        \* 2025-07-01T00
Todays == {Date(2025, 7, 2), Date(2024, 3, 1), Date(2025, 1, 1)}
BaseUrls == {None, PyUrl("", 0), PyUrl("http://api", 0), PyUrl("http://api", 1),
             PyUrl("http://api/v2", 2)}
ApiKeys == {None, PyStr(""), PyStr("tok")}

Baseline ==
  [date |-> PyStr(<<"2", "0", "2", "5", "-", "0", "7", "-", "0", "1">>),
   today |-> Date(2025, 7, 2), base |-> PyUrl("http://api", 0), key |-> None]
Invocations ==
  {[Baseline EXCEPT !.date = d] : d \in Dates}
    \cup {[Baseline EXCEPT !.date = None, !.today = t] : t \in Todays}
    \cup {[Baseline EXCEPT !.base = b] : b \in BaseUrls}
    \cup {[Baseline EXCEPT !.key = k] : k \in ApiKeys}

(***************************************************************************)
(* The payloads the upstream serves to a run.                              *)
(***************************************************************************)
\* /listings: n entries as scalars, as objects with an id, as both forms of
\* one and the same id, under "results", and as the keys of a mapping; a
\* mapping whose "results" is null, a string, a mapping; payloads of no use
ScalarList(n) == JList([k \in 1..n |-> JNum(k)])
ObjectList(n) == JList([k \in 1..n |-> JDict(<<KV("id", JNum(k)), KV("name", JStr("x"))>>)])
SameIdList(n) ==
  JList([k \in 1..n |-> IF k % 2 = 1 THEN JDict(<<KV("id", JNum(1))>>) ELSE JStr("1")])
KeyMapping(n) == JDict([k \in 1..n |-> KV("L" \o ToString(k), JNull)])
ListingsPayloads ==
  UNION {{ScalarList(n), ObjectList(n), SameIdList(n), KeyMapping(n),
          JDict(<<KV("results", ObjectList(n)), KV("count", JNum(n))>>)} : n \in 0..MaxListings}
    \cup {JDict(<<KV("results", JNull)>>),
          JDict(<<KV("results", JStr("none")), KV("next", JNull)>>),
          JDict(<<KV("results", JDict(<<KV("id", JNum(7))>>))>>),
          JStr("maintenance"), JNull, JNum(0)}

\* /listings/{id}/metrics: n records as a list, under "data", under
\* "results", one bare record, null and a string
Record(k) == JDict(<<KV("date", JStr("d")), KV("value", JNum(k))>>)
RecordList(n) == JList([k \in 1..n |-> Record(k)])
MetricsPayloads ==
  {RecordList(n) : n \in 0..MaxRecords}
    \cup {JNull, JStr("n/a"),
          JDict(<<KV("data", RecordList(1))>>),
          JDict(<<KV("data", JNull), KV("results", RecordList(MaxRecords))>>),
          JDict(<<KV("date", JStr("d")), KV("occupancy", JNum(9))>>)}

\* what an upstream that is being recorded serves: of the payloads these,
\* with one success status, and 429 or one error status without a body
RecordedPayloads ==
  {JList(<<>>), JStr("maintenance"), ObjectList(1), ObjectList(2), SameIdList(2),
   KeyMapping(2), JNull, RecordList(1), RecordList(2),
   JDict(<<KV("data", RecordList(1))>>)}
Recorded(bodies) ==
  [status_code : {200}, body : bodies \cap RecordedPayloads]
    \cup [status_code : {RateLimited, 500}, body : {JNull}]

\* the responses the upstream may give to the next request of a run: any
\* with status 200, 429 or an error status; on a rerun against the unchanged
\* upstream, the response the recorded run got to its request of the same
\* position
Served(bodies) ==
  CASE mode = "replay" ->
         IF nrequests < Len(tape) THEN {tape[nrequests + 1]} ELSE {}
    [] mode = "record" -> Recorded(bodies)
    [] OTHER -> Responses({200}, bodies)

(***************************************************************************)
(* etl                                                                     *)
(***************************************************************************)
\* base_url.rstrip("/")
Rstrip(u) == PyStr(u.v)

\* {"Authorization": f"Bearer {api_key}"} if api_key else {}
AuthHeaders(api_key) ==
  IF Truthy(api_key)
  THEN PyDict(<<KV("Authorization", "Bearer " \o api_key.v)>>)
  ELSE PyDict(<<>>)

ListingsUrl(base) == base.v \o "/listings"
MetricsUrl(base, listing_id) == base.v \o "/listings/" \o listing_id \o "/metrics"
MetricsParams(d) == PyDict(<<KV("start_date", DateStr(d)), KV("end_date", DateStr(d))>>)

\* mutant of Records: a `data` field that is no list hides `results`
Records_DataBlocks(metrics_json) ==
  IF metrics_json.t = "null" THEN <<>>
  ELSE IF IsList(metrics_json) THEN metrics_json.v
  ELSE IF IsDict(metrics_json)
  THEN IF HasKey(metrics_json, "data")
       THEN IF IsList(Get(metrics_json, "data")) THEN Get(metrics_json, "data").v
            ELSE <<metrics_json>>
       ELSE IF HasKey(metrics_json, "results") /\ IsList(Get(metrics_json, "results"))
       THEN Get(metrics_json, "results").v
       ELSE <<metrics_json>>
  ELSE <<>>

\* the records of a metrics payload
Records(metrics_json) ==
  IF metrics_json.t = "null" THEN <<>>
  ELSE IF IsList(metrics_json) THEN metrics_json.v
  ELSE IF IsDict(metrics_json)
  THEN IF HasKey(metrics_json, "data") /\ IsList(Get(metrics_json, "data"))
       THEN Get(metrics_json, "data").v
       ELSE IF HasKey(metrics_json, "results") /\ IsList(Get(metrics_json, "results"))
       THEN Get(metrics_json, "results").v
       ELSE <<metrics_json>>
  ELSE <<>>

\* pd.DataFrame(records) of record mappings: the columns are the keys in
\* order of first appearance, one row per record, a missing key is null
RECURSIVE Columns(_)
Columns(records) ==
  IF records = <<>> THEN <<>>
  ELSE LET before == Columns(SubSeq(records, 1, Len(records) - 1))
           seen == {before[k] : k \in 1..Len(before)}
       IN before \o SelectSeq(Keys(records[Len(records)]), LAMBDA c : c \notin seen)
DataFrame(records) ==
  LET cols == Columns(records)
  IN [columns |-> cols,
      rows |-> [k \in 1..Len(records) |-> [c \in 1..Len(cols) |-> Get(records[k], cols[c])]]]

\* os.path.join("data", "raw", str(listing_id), f"{target_date}.parquet")
OutPath(listing_id, d) == "data/raw/" \o listing_id \o "/" \o DateStr(d) \o ".parquet"

\* mutant of ToParquet: a table without rows is not written
ToParquet_SkipEmpty(fs, path, df) ==
  IF df.rows = <<>> THEN fs
  ELSE [p \in DOMAIN fs \cup {path} |-> IF p = path THEN df ELSE fs[p]]

\* mutant of ToParquet: the rows are appended to the file that is there
ToParquet_Append(fs, path, df) ==
  [p \in DOMAIN fs \cup {path} |->
     IF p # path THEN fs[p]
     ELSE IF path \in DOMAIN fs
     THEN [columns |-> df.columns, rows |-> fs[path].rows \o df.rows]
     ELSE df]

\* mutant of ToParquet: a file that is there is left as it is
ToParquet_KeepFirst(fs, path, df) ==
  IF path \in DOMAIN fs THEN fs
  ELSE [p \in DOMAIN fs \cup {path} |-> IF p = path THEN df ELSE fs[p]]

\* df.to_parquet(out_path, index=False): the file holds df, whatever it held
ToParquet(fs, path, df) ==
  [p \in DOMAIN fs \cup {path} |-> IF p = path THEN df ELSE fs[p]]

\* the start of etl in an empty working directory, the upstream in mode m
Start(m) ==
  /\ \E inv \in Invocations :
       /\ date = inv.date /\ today = inv.today
       /\ env_base_url = inv.base /\ env_api_key = inv.key
  /\ files = NoFiles
  /\ mode = m /\ tape = <<>> /\ first_run_files = NoFiles
  /\ pc = "resolve_date" /\ exit_code = NotExited
  /\ target_date = NoDate /\ base_url = None /\ headers = None
  /\ listings_json = None /\ listing_ids = <<>> /\ i = 0
  /\ url = "" /\ f_headers = None /\ params = None
  /\ max_retries = 0 /\ backoff_factor = 0
  /\ attempt = 0 /\ response = NoResponse /\ fstate = "idle"
  /\ result = None /\ trace = <<>>
  /\ nrequests = 0 /\ request = NoRequest /\ written = <<>>

Init == Start("live")

\* lines 112-119: the target date, or BadParameter (a usage error, status 2)
ResolveDate ==
  /\ pc = "resolve_date"
  /\ IF Truthy(date)
     THEN IF Strptime(date.v) = NoDate
          THEN pc' = "exited" /\ exit_code' = 2 /\ UNCHANGED target_date
          ELSE pc' = "read_env" /\ target_date' = Strptime(date.v) /\ UNCHANGED exit_code
     ELSE pc' = "read_env" /\ target_date' = Yesterday(today) /\ UNCHANGED exit_code
  /\ UNCHANGED <<inputs, upstream, files, base_url, headers, listings_json,
                 listing_ids, i, callArgs, callVars, requests, written>>

\* lines 121-127: the base URL, or typer.Exit(code=1), and the headers
ReadEnv ==
  /\ pc = "read_env"
  /\ IF ~Truthy(env_base_url)
     THEN pc' = "exited" /\ exit_code' = 1 /\ UNCHANGED <<base_url, headers>>
     ELSE /\ pc' = "get_listings"
          /\ base_url' = Rstrip(env_base_url)
          /\ headers' = AuthHeaders(env_api_key)
          /\ UNCHANGED exit_code
  /\ UNCHANGED <<inputs, upstream, files, target_date, listings_json,
                 listing_ids, i, callArgs, callVars, requests, written>>

\* lines 132-133: the call of _get_with_retry for the listings
GetListings ==
  /\ pc = "get_listings"
  /\ Call(ListingsUrl(base_url), headers, None, DefaultMaxRetries, DefaultBackoffFactor)
  /\ pc' = "fetch_listings"
  /\ UNCHANGED <<inputs, upstream, files, exit_code, locals, requests, written>>

\* mutant of AfterFetch: a failed fetch is skipped over, the run goes on
AfterFetch_SkipOnError(next) ==
  /\ pc' = IF fstate' = "running" THEN pc ELSE next
  /\ exit_code' = exit_code

\* where etl stands after an iteration of the call: still in it, past it, or
\* left by the HTTPStatusError, which nothing catches (status 1)
AfterFetch(next) ==
  /\ pc' = CASE fstate' = "running" -> pc
             [] fstate' = "returned" -> next
             [] fstate' = "raised" -> "exited"
  /\ exit_code' = IF fstate' = "raised" THEN 1 ELSE exit_code

FetchListings ==
  /\ pc = "fetch_listings"
  /\ \E r \in Served(ListingsPayloads) : GetWithRetryStep(r)
  /\ AfterFetch("extract")
  /\ UNCHANGED <<inputs, files, locals, written>>

\* mutant of ExtractListings: the loop starts at the last listing
ExtractListings_LastFirst ==
  /\ pc = "extract"
  /\ Returned
  /\ listings_json' = result /\ result' = None
  /\ listing_ids' = _extract_listing_ids(result)
  /\ IF listing_ids' = <<>>
     THEN pc' = "exited" /\ exit_code' = 0 /\ UNCHANGED i
     ELSE pc' = "get_metrics" /\ i' = Len(listing_ids') /\ UNCHANGED exit_code
  /\ UNCHANGED <<inputs, upstream, files, target_date, base_url, headers,
                 callArgs, requests, written>>

\* lines 133-137: the IDs of the listings; none ends the run with status 0
ExtractListings ==
  /\ pc = "extract"
  /\ Returned
  /\ listings_json' = result /\ result' = None
  /\ listing_ids' = _extract_listing_ids(result)
  /\ IF listing_ids' = <<>>
     THEN pc' = "exited" /\ exit_code' = 0 /\ UNCHANGED i
     ELSE pc' = "get_metrics" /\ i' = 1 /\ UNCHANGED exit_code
  /\ UNCHANGED <<inputs, upstream, files, target_date, base_url, headers,
                 callArgs, requests, written>>

\* mutant of GetMetrics: the metrics call is made without the headers
GetMetrics_NoHeaders ==
  /\ pc = "get_metrics"
  /\ Call(MetricsUrl(base_url, listing_ids[i]), None, MetricsParams(target_date),
          DefaultMaxRetries, DefaultBackoffFactor)
  /\ pc' = "fetch_metrics"
  /\ UNCHANGED <<inputs, upstream, files, exit_code, locals, requests, written>>

\* lines 139-145: the call of _get_with_retry for the metrics of listing_id
GetMetrics ==
  /\ pc = "get_metrics"
  /\ Call(MetricsUrl(base_url, listing_ids[i]), headers, MetricsParams(target_date),
          DefaultMaxRetries, DefaultBackoffFactor)
  /\ pc' = "fetch_metrics"
  /\ UNCHANGED <<inputs, upstream, files, exit_code, locals, requests, written>>

FetchMetrics ==
  /\ pc = "fetch_metrics"
  /\ \E r \in Served(MetricsPayloads) : GetWithRetryStep(r)
  /\ AfterFetch("write")
  /\ UNCHANGED <<inputs, files, locals, written>>

\* lines 146-169: the records of the payload, written as one table; then the
\* next listing, or the end of the run (status 0)
WriteMetrics ==
  /\ pc = "write"
  /\ Returned
  /\ LET records == Records(result)
         df == DataFrame(records)
         out_path == OutPath(listing_ids[i], target_date)
     IN /\ files' = ToParquet(files, out_path, df)
        /\ written' = Append(written, [path |-> out_path, records |-> records])
  /\ IF i < Len(listing_ids)
     THEN pc' = "get_metrics" /\ i' = i + 1 /\ UNCHANGED exit_code
     ELSE pc' = "exited" /\ exit_code' = 0 /\ UNCHANGED i
  /\ UNCHANGED <<inputs, upstream, target_date, base_url, headers, listings_json,
                 listing_ids, callArgs, result, requests>>

Next ==
  \/ ResolveDate
  \/ ReadEnv
  \/ GetListings
  \/ FetchListings
  \/ ExtractListings
  \/ GetMetrics
  \/ FetchMetrics
  \/ WriteMetrics

Spec == Init /\ [][Next]_vars

(***************************************************************************)
(* Two runs in a row, same arguments, same environment, same day: the      *)
(* first is recorded, and the second gets from the upstream, request by    *)
(* request, the responses the first one got.                               *)
(***************************************************************************)
InitRerun == Start("record")

\* etl is started again once the first run is over; the disk stays
Rerun ==
  /\ pc = "exited" /\ mode = "record"
  /\ mode' = "replay" /\ first_run_files' = files
  /\ pc' = "resolve_date" /\ exit_code' = NotExited
  /\ target_date' = NoDate /\ base_url' = None /\ headers' = None
  /\ listings_json' = None /\ listing_ids' = <<>> /\ i' = 0
  /\ url' = "" /\ f_headers' = None /\ params' = None
  /\ max_retries' = 0 /\ backoff_factor' = 0
  /\ attempt' = 0 /\ response' = NoResponse /\ fstate' = "idle"
  /\ result' = None /\ trace' = <<>>
  /\ nrequests' = 0 /\ request' = NoRequest /\ written' = <<>>
  /\ UNCHANGED <<inputs, files, tape>>

NextRerun == Next \/ Rerun

SpecRerun == InitRerun /\ [][NextRerun]_vars

(***************************************************************************)
(* A direct call of _extract_listing_ids, with any payload built from      *)
(* Elements.                                                               *)
(***************************************************************************)
Elements ==
  {JNum(1), JNum(2), JStr("1"), JStr("a"), JNull, JBool(TRUE),
   JDict(<<KV("id", JNum(2))>>),
   JDict(<<KV("name", JStr("x")), KV("id", JStr("a"))>>),
   JDict(<<KV("id", JNull)>>),
   JDict(<<KV("name", JStr("x"))>>),
   JList(<<JNum(1)>>)}
ElementLists == UNION {[1..n -> Elements] : n \in 0..MaxLen}
ExtractPayloads ==
  {JList(l) : l \in ElementLists}
    \cup {JDict(<<KV("results", JList(l))>>) : l \in ElementLists}
    \cup {JDict(<<KV("count", JNum(2)), KV("results", JList(l)), KV("next", JNull)>>) :
            l \in ElementLists}
    \cup {JDict(<<KV("b", x), KV("results", x), KV("a", JNum(1))>>) :
            x \in Elements \ {JList(<<JNum(1)>>)}}
    \cup {JDict([k \in 1..n |-> KV("L" \o ToString(n - k), JNum(k))]) : n \in 0..(MaxLen + 1)}
    \cup {JNull, JNum(7), JStr("x"), JBool(FALSE)}

InitExtract ==
  /\ date = None /\ env_base_url = None /\ env_api_key = None
  /\ today = NoDate
  /\ files = NoFiles
  /\ mode = "live" /\ tape = <<>> /\ first_run_files = NoFiles
  /\ pc = "extract_call" /\ exit_code = NotExited
  /\ target_date = NoDate /\ base_url = None /\ headers = None
  /\ listings_json \in ExtractPayloads /\ listing_ids = <<>> /\ i = 0
  /\ url = "" /\ f_headers = None /\ params = None
  /\ max_retries = 0 /\ backoff_factor = 0
  /\ attempt = 0 /\ response = NoResponse /\ fstate = "idle"
  /\ result = None /\ trace = <<>>
  /\ nrequests = 0 /\ request = NoRequest /\ written = <<>>

ExtractStep ==
  /\ pc = "extract_call"
  /\ listing_ids' = _extract_listing_ids(listings_json)
  /\ pc' = "extract_done"
  /\ UNCHANGED <<inputs, upstream, files, exit_code, target_date, base_url, headers,
                 listings_json, i, callArgs, callVars, requests, written>>

NextExtract == ExtractStep

SpecExtract == InitExtract /\ [][NextExtract]_vars

(***************************************************************************)
(* The normalization of a metrics payload alone (lines 147-160 of etl),    *)
(* with any payload built from FieldValues.                                *)
(***************************************************************************)
FieldValues ==
  {RecordList(n) : n \in 0..MaxRecords}
    \cup {JNull, JStr("n/a"), JNum(0), JBool(FALSE), Record(9), JList(<<JNum(1)>>)}
\* a mapping with neither, one or both of `data` and `results`, in either order
FieldMappings ==
  {JDict(<<KV("count", JNum(1))>>), JDict(<<>>)}
    \cup {JDict(<<KV("data", x), KV("count", JNum(1))>>) : x \in FieldValues}
    \cup {JDict(<<KV("count", JNum(1)), KV("results", x)>>) : x \in FieldValues}
    \cup {JDict(<<KV("data", x), KV("results", y)>>) : x \in FieldValues, y \in FieldValues}
    \cup {JDict(<<KV("results", y), KV("count", JNum(1)), KV("data", x)>>) :
            x \in FieldValues, y \in FieldValues}
RecordsPayloads == FieldValues \cup FieldMappings

InitRecords ==
  /\ date = None /\ env_base_url = None /\ env_api_key = None
  /\ today = NoDate
  /\ files = NoFiles
  /\ mode = "live" /\ tape = <<>> /\ first_run_files = NoFiles
  /\ pc = "records_call" /\ exit_code = NotExited
  /\ target_date = NoDate /\ base_url = None /\ headers = None
  /\ listings_json = None /\ listing_ids = <<>> /\ i = 0
  /\ url = "" /\ f_headers = None /\ params = None
  /\ max_retries = 0 /\ backoff_factor = 0
  /\ attempt = 0 /\ response = NoResponse /\ fstate = "idle"
  /\ result \in RecordsPayloads /\ trace = <<>>
  /\ nrequests = 0 /\ request = NoRequest /\ written = <<>>

\* lines 147-160 on metrics_json = result; the records are logged in
\* `written`, with no path as nothing is written
RecordsStep ==
  /\ pc = "records_call"
  /\ written' = <<[path |-> "", records |-> Records(result)]>>
  /\ pc' = "records_done"
  /\ UNCHANGED <<inputs, upstream, files, exit_code, locals, callArgs, callVars, requests>>

NextRecords == RecordsStep

SpecRecords == InitRecords /\ [][NextRecords]_vars

(***************************************************************************)
(* Properties of _get_with_retry, over direct calls (SpecFetch).           *)
(***************************************************************************)
\* the status codes of the responses of the current call, in order
Statuses(tr) ==
  LET g == SelectSeq(tr, LAMBDA e : e[1] = "get")
  IN [k \in 1..Len(g) |-> g[k][2]]
\* the delays of the sleeps of the current call, in order
Sleeps(tr) ==
  LET g == SelectSeq(tr, LAMBDA e : e[1] = "sleep")
  IN [k \in 1..Len(g) |-> g[k][2]]
All429(st) == \A k \in 1..Len(st) : st[k] = 429
\* the call is over and no step of it can follow
CallOver == fstate \in {"returned", "raised"} /\ ~ENABLED DirectStep

\* C1: with max_retries >= 2, while the responses so far are n < max_retries
\* 429s the call has slept n times and goes on to its next request, and when
\* k < max_retries 429s are followed by a 2xx response the call returns the
\* body of that response after exactly k + 1 requests and k sleeps, the 2xx
\* request being the last event of the call.
C1_RetryThenSuccess ==
  max_retries >= 2 =>
    LET st == Statuses(trace)
        n == Len(st)
    IN /\ (n >= 1 /\ n < max_retries /\ All429(st)) =>
            /\ fstate = "running"
            /\ Len(Sleeps(trace)) = n
            /\ trace[Len(trace)][1] = "sleep"
       /\ (n >= 1 /\ n <= max_retries /\ All429(SubSeq(st, 1, n - 1))
             /\ st[n] \in SuccessCodes) =>
            /\ fstate = "returned"
            /\ result = response.body /\ response.status_code = st[n]
            /\ nrequests = n /\ nrequests <= max_retries
            /\ Len(Sleeps(trace)) = n - 1
            /\ trace[Len(trace)] = <<"get", st[n]>>
            /\ CallOver

\* a call that succeeded at its last allowed attempt, after two or more 429s
C1_Witness ==
  /\ fstate = "returned" /\ max_retries >= 3
  /\ Len(Statuses(trace)) = max_retries
  /\ All429(SubSeq(Statuses(trace), 1, max_retries - 1))
  /\ result = JList(<<JNum(1)>>)

\* C2: with max_retries >= 1 and 429 the answer to every request, the call
\* never sends more than max_retries requests, goes on while it has sent
\* fewer, and after the max_retries-th 429 it has slept max_retries - 1
\* times and raises the error of that last response; nothing follows.
C2_ExhaustedRaises ==
  (max_retries >= 1 /\ All429(Statuses(trace))) =>
    LET n == Len(Statuses(trace))
    IN /\ n <= max_retries
       /\ n < max_retries => fstate = "running" /\ Len(Sleeps(trace)) = n
       /\ n = max_retries =>
            /\ fstate = "raised"
            /\ response.status_code = 429
            /\ nrequests = max_retries
            /\ Len(Sleeps(trace)) = max_retries - 1
            /\ trace[Len(trace)] = <<"get", 429>>
            /\ CallOver

\* a call that raised after three or more 429s in a row
C2_Witness ==
  /\ fstate = "raised" /\ max_retries >= 3
  /\ Len(Statuses(trace)) = max_retries /\ All429(Statuses(trace))

\* C3: a response with an error status other than 429 is the last event of
\* its call, at whatever attempt it arrives: the call raises the error of
\* that response, does not sleep after it and sends nothing more.
C3_OtherErrorRaisesAtOnce ==
  \A p \in 1..Len(trace) :
    (trace[p][1] = "get" /\ trace[p][2] \in ErrorCodes) =>
      /\ p = Len(trace)
      /\ fstate = "raised"
      /\ response.status_code = trace[p][2]
      /\ result = None
      /\ CallOver

\* a 500 after two retried 429s
C3_Witness ==
  /\ fstate = "raised" /\ attempt = 2
  /\ Statuses(trace) = <<429, 429, 500>>

\* C4: the sleep that follows the 429 of attempt index k lasts
\* backoff_factor * 2^k, each delay is twice the one before, and under the
\* default policy the delays are 1, 2, ... in that order.
C4_BackoffDoubles ==
  LET sl == Sleeps(trace)
  IN /\ \A k \in 1..Len(sl) : sl[k] = backoff_factor * 2 ^ (k - 1)
     /\ \A k \in 2..Len(sl) : sl[k] = 2 * sl[k - 1]
     /\ Len(sl) = attempt
     /\ (max_retries = DefaultMaxRetries /\ backoff_factor = DefaultBackoffFactor) =>
          sl \in {<<>>, <<1>>, <<1, 2>>}

\* three sleeps of one call, with a base other than one
C4_Witness ==
  /\ Len(Sleeps(trace)) = 3 /\ backoff_factor = 3
  /\ Sleeps(trace) = <<3, 6, 12>>

\* the most requests a call with the current max_retries sends
Budget == IF max_retries > 1 THEN max_retries ELSE 1
\* the call has sent at most Budget requests, fewer while it goes on, and one
\* or more when it is over; with max_retries <= 0 it is over at its first
\* response, a 429 included, which it raises, and it has not slept
WithinBudget ==
  /\ nrequests = Len(Statuses(trace))
  /\ nrequests <= Budget
  /\ fstate = "running" => nrequests < Budget
  /\ fstate # "running" => (nrequests >= 1 /\ CallOver)
  /\ max_retries <= 0 =>
       /\ Sleeps(trace) = <<>> /\ attempt = 0
       /\ fstate = "running" <=> nrequests = 0
       /\ (nrequests = 1 /\ response.status_code = 429) => fstate = "raised"

\* C17: whatever the responses, a call of _get_with_retry is over after one
\* request or more and max(1, max_retries) or fewer; with max_retries <= 0
\* it sends one request, never sleeps, and raises on a 429.
C17_FetchTerminates == []WithinBudget /\ <>CallOver

\* max_retries = -1: one request, answered 429, raised without a sleep
C17_Witness ==
  /\ max_retries = MinRetries /\ fstate = "raised"
  /\ trace = << <<"get", 429>> >> /\ nrequests = 1 /\ attempt = 0

(***************************************************************************)
(* Properties of a run of etl (Spec).                                      *)
(***************************************************************************)
\* the run is over and nothing more happens
RunOver == pc = "exited" /\ ~ENABLED Next
\* the index of the last write of the run to the path of its k-th write
LastWrite(k) ==
  CHOOSE m \in k..Len(written) :
    /\ written[m].path = written[k].path
    /\ \A q \in (m + 1)..Len(written) : written[q].path # written[k].path
\* the disk holds what the writes of the run left there, and nothing else
DiskIsWritten ==
  /\ DOMAIN files = {written[k].path : k \in 1..Len(written)}
  /\ \A k \in 1..Len(written) :
       files[written[k].path] = DataFrame(written[LastWrite(k)].records)

\* the --date argument is given and is no date in the form YYYY-MM-DD
BadDate == date # None /\ date.v # <<>> /\ Strptime(date.v) = NoDate
\* WHEELHOUSE_BASE_URL is missing or empty
NoBaseUrl == env_base_url = None \/ (env_base_url.v = "" /\ env_base_url.slashes = 0)

\* C5: a run with an unparseable --date or without a base URL never gets to
\* the listings call: it sends no request and writes no file, and it ends
\* with a status other than zero.
C5_ConfigErrorBeforeAnyRequest ==
  (BadDate \/ NoBaseUrl) =>
    /\ pc \in {"resolve_date", "read_env", "exited"}
    /\ nrequests = 0 /\ request = NoRequest /\ fstate = "idle"
    /\ files = NoFiles /\ written = <<>>
    /\ pc = "exited" => (exit_code \in {1, 2} /\ RunOver)
    /\ (pc = "exited" /\ BadDate) => exit_code = 2
    /\ (pc = "exited" /\ ~BadDate) => exit_code = 1

\* a run ended by the empty base URL
C5_Witness ==
  /\ pc = "exited" /\ exit_code = 1
  /\ env_base_url = PyUrl("", 0) /\ target_date = Date(2025, 7, 1)

\* the payloads the listings normalizer finds no ID in
ZeroIdPayload(j) ==
  \/ j = JList(<<>>)
  \/ j = JDict(<<>>)
  \/ (j.t = "dict" /\ HasKey(j, "results") /\ Get(j, "results") = JList(<<>>))
  \/ j.t \notin {"list", "dict"}

\* C6: once the listings payload is known to yield no ID (the empty list, a
\* mapping with an empty `results` list, the empty mapping, a payload that
\* is neither), the run is over with status 0, every request it sent was
\* the listings request, and no file was written.
C6_NoListingsEndsQuietly ==
  (listings_json # None /\ (ZeroIdPayload(listings_json) \/ listing_ids = <<>>)) =>
    /\ listing_ids = <<>>
    /\ pc = "exited" /\ exit_code = 0 /\ RunOver
    /\ nrequests \in 1..DefaultMaxRetries
    /\ request.url = ListingsUrl(base_url) /\ url = request.url
    /\ request.params = None
    /\ files = NoFiles /\ written = <<>>

\* a run that got a string for its listings, after one 429
C6_Witness ==
  /\ pc = "exited" /\ exit_code = 0
  /\ listings_json = JStr("maintenance") /\ nrequests = 2

\* C7: when the fetch of the metrics of the j-th listing raises, the run is
\* over with status 1: its last request was one for listing j, it has
\* written the files of listings 1..j-1 and no other, and the disk holds
\* those files as written.
C7_MetricsFailureAborts ==
  (fstate = "raised" /\ i >= 1) =>
    /\ pc = "exited" /\ exit_code = 1 /\ RunOver
    /\ RaisesForStatus(response.status_code)
    /\ response.status_code = 429 => attempt = max_retries - 1
    /\ request.url = MetricsUrl(base_url, listing_ids[i])
    /\ Len(written) = i - 1
    /\ \A k \in 1..(i - 1) : written[k].path = OutPath(listing_ids[k], target_date)
    /\ DiskIsWritten

\* the second listing's metrics answered 429 three times, after the first
\* listing's two records were written
C7_Witness ==
  /\ pc = "exited" /\ exit_code = 1 /\ i = 2
  /\ Statuses(trace) = <<429, 429, 429>>
  /\ listing_ids = <<"1", "2">>
  /\ DOMAIN files = {"data/raw/1/2025-07-01.parquet"}
  /\ Len(files["data/raw/1/2025-07-01.parquet"].rows) = 2

\* C8: after a run that ends with status 0 over one or more IDs, every ID
\* has its file data/raw/{id}/{date}.parquet, written once per occurrence
\* of the ID, and the file has as many rows as the records last fetched for
\* that ID, none included.
C8_OneFilePerListing ==
  (pc = "exited" /\ exit_code = 0 /\ listing_ids # <<>>) =>
    /\ Len(written) = Len(listing_ids)
    /\ \A k \in 1..Len(listing_ids) :
         LET path == "data/raw/" \o listing_ids[k] \o "/" \o DateStr(target_date)
                       \o ".parquet"
         IN /\ written[k].path = path
            /\ path \in DOMAIN files
            /\ Len(files[path].rows) = Len(written[LastWrite(k)].records)
            /\ written[LastWrite(k)].records = <<>> => files[path].rows = <<>>

\* two listings, the first with two records and the second with none
C8_Witness ==
  /\ pc = "exited" /\ exit_code = 0
  /\ listing_ids = <<"1", "2">>
  /\ DOMAIN files = {"data/raw/1/2025-07-01.parquet", "data/raw/2/2025-07-01.parquet"}
  /\ Len(files["data/raw/1/2025-07-01.parquet"].rows) = 2
  /\ Len(files["data/raw/2/2025-07-01.parquet"].rows) = 0

\* the IDs whose metrics the run has written so far
WrittenIds == {listing_ids[k] : k \in 1..Len(written)}
\* the occurrence of id in listing_ids that was written last
LastFetch(id) ==
  CHOOSE k \in 1..Len(written) :
    /\ listing_ids[k] = id
    /\ \A q \in (k + 1)..Len(written) : listing_ids[q] # id

\* C12: at any point of a run the disk holds one file per ID written so far
\* and no other, at data/raw/{id}/{date}.parquet; an ID that occurs several
\* times is fetched and written once per occurrence, to that same file;
\* when the run is over each file holds the records fetched for the last
\* occurrence of its ID, and after a run that ends with status 0 there are
\* as many files as distinct IDs.
C12_OneArtifactPerIdAndDate ==
  LET name == "/" \o DateStr(target_date) \o ".parquet"
      Artifact(id) == "data/raw/" \o id \o name
      AllIds == {listing_ids[k] : k \in 1..Len(listing_ids)}
  IN /\ Len(written) <= Len(listing_ids)
     /\ \A k \in 1..Len(written) : written[k].path = Artifact(listing_ids[k])
     /\ DOMAIN files = {Artifact(id) : id \in WrittenIds}
     /\ Cardinality(DOMAIN files) = Cardinality(WrittenIds)
     /\ pc = "exited" =>
          \A id \in WrittenIds :
            files[Artifact(id)] = DataFrame(written[LastFetch(id)].records)
     /\ pc = "write" =>
          /\ Len(written) = i - 1
          /\ request.url = MetricsUrl(base_url, listing_ids[i])
          /\ nrequests >= i + 1
     /\ (pc = "exited" /\ exit_code = 0 /\ listing_ids # <<>>) =>
          /\ Len(written) = Len(listing_ids)
          /\ nrequests >= Len(listing_ids) + 1
          /\ Cardinality(DOMAIN files) = Cardinality(AllIds)

\* the ID 1 came twice: two records were written to its file, then none
C12_Witness ==
  /\ pc = "exited" /\ exit_code = 0
  /\ listing_ids = <<"1", "1">>
  /\ Len(written) = 2 /\ written[1].path = written[2].path
  /\ Len(written[1].records) = 2 /\ written[2].records = <<>>
  /\ DOMAIN files = {"data/raw/1/2025-07-01.parquet"}
  /\ files["data/raw/1/2025-07-01.parquet"].rows = <<>>

\* the headers etl builds from WHEELHOUSE_API_KEY
ExpectedHeaders ==
  IF env_api_key = None \/ env_api_key.v = "" THEN PyDict(<<>>)
  ELSE PyDict(<<KV("Authorization", "Bearer " \o env_api_key.v)>>)

\* C13: every request of a run, for the listings or for metrics, first or
\* retried, is sent with the same headers: Authorization: Bearer {key} and
\* nothing else when WHEELHOUSE_API_KEY has a value, none when it is missing
\* or empty.
C13_SameHeadersOnEveryRequest ==
  /\ request # NoRequest => request.headers = ExpectedHeaders
  /\ fstate = "running" => HeadersOrEmpty(f_headers) = ExpectedHeaders
  /\ headers # None => headers = ExpectedHeaders

\* with a key, the retried request for the metrics of the second listing
C13_Witness ==
  /\ env_api_key = PyStr("tok")
  /\ pc = "fetch_metrics" /\ i = 2 /\ attempt = 1
  /\ Statuses(trace) = <<429>>
  /\ request.url = "http://api/listings/2/metrics"
  /\ request.headers = PyDict(<<KV("Authorization", "Bearer tok")>>)

\* C14: every request sent before the listings payload is extracted is a
\* listings request, and every request sent after it is the metrics request
\* of the first listing that has no file written yet by the run, with
\* start_date and end_date both the target date; the IDs are extracted once,
\* after the listings call has returned; a file is written only after the
\* fetch of its listing has returned, from the records of the payload
\* fetched, and it is the file of the listing after those written before.
C14_StrictOrder ==
  [][/\ nrequests' # nrequests =>
          IF listings_json = None
          THEN /\ request'.url = ListingsUrl(base_url) /\ request'.params = None
               /\ listing_ids = <<>> /\ written = <<>> /\ written' = <<>>
          ELSE /\ i = Len(written) + 1
               /\ request'.url = MetricsUrl(base_url, listing_ids[i])
               /\ request'.params
                    = PyDict(<<KV("start_date", DateStr(target_date)),
                               KV("end_date", DateStr(target_date))>>)
               /\ written' = written
     /\ listings_json' # listings_json =>
          /\ listings_json = None /\ fstate = "returned"
          /\ request.url = ListingsUrl(base_url)
          /\ listings_json' = result
          /\ listing_ids' = _extract_listing_ids(listings_json')
          /\ nrequests' = nrequests /\ written' = <<>>
     /\ written' # written =>
          /\ fstate = "returned" /\ nrequests' = nrequests
          /\ i = Len(written) + 1
          /\ request.url = MetricsUrl(base_url, listing_ids[i])
          /\ written' = Append(written, [path |-> OutPath(listing_ids[i], target_date),
                                        records |-> Records(result)])
          /\ files'[OutPath(listing_ids[i], target_date)] = DataFrame(Records(result))
     /\ i' # i => i' = i + 1 /\ Len(written') = i
    ]_vars

\* the metrics of the second listing are asked for a second time, after the
\* file of the first was written
C14_Witness ==
  /\ pc = "fetch_metrics" /\ i = 2 /\ attempt = 1
  /\ listing_ids = <<"L1", "L2">>
  /\ nrequests >= 4
  /\ request.url = "http://api/listings/L2/metrics"
  /\ request.params = PyDict(<<KV("start_date", "2025-07-01"), KV("end_date", "2025-07-01")>>)
  /\ Len(written) = 1 /\ written[1].path = "data/raw/L1/2025-07-01.parquet"
  /\ DOMAIN files = {"data/raw/L1/2025-07-01.parquet"}

\* the listings payload has a "results" field that is no list
ResultsNoList(j) ==
  /\ j # None /\ j.t = "dict"
  /\ \E p \in 1..Len(j.v) : j.v[p].k = "results" /\ j.v[p].val.t # "list"
\* the position of "results" among the keys of mapping j
ResultsAt(j) == CHOOSE p \in 1..Len(j.v) : j.v[p].k = "results"

\* C15: when the listings payload is a mapping whose `results` is there and
\* is no list, the IDs are the keys of the mapping in their order, "results"
\* among them; the run asks for {base}/listings/results/metrics when it
\* gets to that ID, which only a failed fetch for an earlier key prevents,
\* and writes data/raw/results/{date}.parquet.
C15_ResultsKeyBecomesAnId ==
  ResultsNoList(listings_json) =>
    LET j == listings_json
        p == ResultsAt(j)
    IN /\ Len(listing_ids) = Len(j.v)
       /\ \A k \in 1..Len(j.v) : listing_ids[k] = j.v[k].k
       /\ listing_ids[p] = "results"
       /\ pc # "extract"
       /\ (i = p /\ pc \in {"write", "exited"}) =>
            request.url = base_url.v \o "/listings/results/metrics"
       /\ (i = p /\ pc = "fetch_metrics" /\ attempt > 0) =>
            request.url = base_url.v \o "/listings/results/metrics"
       /\ Len(written) >= p =>
            written[p].path = "data/raw/results/" \o DateStr(target_date) \o ".parquet"
       /\ (i > p \/ (i = p /\ pc = "exited" /\ exit_code = 0)) => Len(written) >= p
       /\ (pc = "exited" /\ i < p) => (exit_code = 1 /\ fstate = "raised")

\* `results` is a string: the metrics of "results" and of "next" were fetched
C15_Witness ==
  /\ listings_json = JDict(<<KV("results", JStr("none")), KV("next", JNull)>>)
  /\ listing_ids = <<"results", "next">>
  /\ pc = "exited" /\ exit_code = 0
  /\ written[1].path = "data/raw/results/2025-07-01.parquet"
  /\ request.url = "http://api/listings/next/metrics"
  /\ "data/raw/results/2025-07-01.parquet" \in DOMAIN files

\* C16: every call of a run counts its own 429s only: it starts at attempt
\* 0 whatever the calls before it got, its first sleep lasts
\* DefaultBackoffFactor, it is still going on after fewer than
\* DefaultMaxRetries 429s and gives up on a 429 only at its
\* DefaultMaxRetries-th request; so a run sends at most DefaultMaxRetries
\* requests for the listings and for each listing it has got to.
C16_BudgetPerCall ==
  LET st == Statuses(trace)
      sl == Sleeps(trace)
  IN /\ (fstate = "running" /\ trace = <<>>) => attempt = 0
     /\ attempt = Len(sl) /\ attempt <= DefaultMaxRetries - 1
     /\ sl # <<>> => sl[1] = DefaultBackoffFactor
     /\ fstate = "running" =>
          (All429(st) /\ Len(st) = attempt /\ Len(st) < DefaultMaxRetries)
     /\ (fstate = "raised" /\ response.status_code = 429) =>
          st = [k \in 1..DefaultMaxRetries |-> 429]
     /\ nrequests <= DefaultMaxRetries * (i + 1)
     /\ nrequests <= DefaultMaxRetries * (Len(listing_ids) + 1)

\* the listings and the first listing took three requests each; the second
\* listing has had two 429s and is asked for a third time
C16_Witness ==
  /\ pc = "fetch_metrics" /\ i = 2 /\ Len(listing_ids) = 2
  /\ nrequests = 8 /\ fstate = "running"
  /\ attempt = 2 /\ Sleeps(trace) = <<1, 2>>

(***************************************************************************)
(* Properties of a rerun (SpecRerun).                                      *)
(***************************************************************************)
\* C9: when the second of two runs for the same date against the same
\* responses is over, the disk holds the files the first run left, each
\* with the contents it had: none added, none removed, none grown.
C9_RerunLeavesSameFiles ==
  (mode = "replay" /\ pc = "exited") =>
    /\ DOMAIN files = DOMAIN first_run_files
    /\ \A p \in DOMAIN files : files[p] = first_run_files[p]
    /\ nrequests = Len(tape)
    /\ DiskIsWritten

\* a second run that rewrote two files, one of them holding two rows
C9_Witness ==
  /\ mode = "replay" /\ pc = "exited" /\ exit_code = 0
  /\ Len(written) = 2 /\ written[1].path # written[2].path
  /\ Len(files[written[1].path].rows) = 2
  /\ first_run_files = files

(***************************************************************************)
(* Properties of _extract_listing_ids (SpecExtract).                       *)
(***************************************************************************)
\* the ID Python gives for each element of Elements
ExpectedId(e) ==
  CASE e = JNum(1) -> "1"
    [] e = JNum(2) -> "2"
    [] e = JStr("1") -> "1"
    [] e = JStr("a") -> "a"
    [] e = JNull -> "None"
    [] e = JBool(TRUE) -> "True"
    [] e = JDict(<<KV("id", JNum(2))>>) -> "2"
    [] e = JDict(<<KV("name", JStr("x")), KV("id", JStr("a"))>>) -> "a"
    [] e = JDict(<<KV("id", JNull)>>) -> "None"
    [] e = JDict(<<KV("name", JStr("x"))>>) -> "{'name': 'x'}"
    [] e = JList(<<JNum(1)>>) -> "[1]"
\* the sequence the IDs are taken from: the list payload, or the list under
\* "results" of a mapping payload; <<None>> when there is none
IdSource(j) ==
  IF j.t = "list" THEN j.v
  ELSE IF j.t = "dict" /\ \E k \in 1..Len(j.v) : j.v[k].k = "results" /\ j.v[k].val.t = "list"
  THEN j.v[CHOOSE k \in 1..Len(j.v) : j.v[k].k = "results"].val.v
  ELSE <<None>>

\* C10: for a list payload, or a mapping whose `results` is a list, the IDs
\* are one string per element in order, duplicates kept: the stringified
\* `id` of a mapping element that has one, else the stringified element;
\* for any other mapping they are its keys in insertion order; for any
\* other payload there are none.
C10_ExtractListingIds ==
  pc = "extract_done" =>
    LET j == listings_json
        src == IdSource(j)
    IN IF src # <<None>>
       THEN /\ Len(listing_ids) = Len(src)
            /\ \A k \in 1..Len(src) : listing_ids[k] = ExpectedId(src[k])
       ELSE IF j.t = "dict"
       THEN /\ Len(listing_ids) = Len(j.v)
            /\ \A k \in 1..Len(j.v) : listing_ids[k] = j.v[k].k
       ELSE listing_ids = <<>>

\* a `results` list whose two elements give the same ID twice
C10_Witness ==
  /\ pc = "extract_done"
  /\ listings_json = JDict(<<KV("count", JNum(2)),
                             KV("results", JList(<<JDict(<<KV("name", JStr("x")),
                                                          KV("id", JStr("a"))>>),
                                                   JStr("a")>>)),
                             KV("next", JNull)>>)
  /\ listing_ids = <<"a", "a">>

(***************************************************************************)
(* Properties of the metrics normalization (SpecRecords).                  *)
(***************************************************************************)
\* the value of field k of mapping j when it is a list; <<None>> otherwise
ListField(j, k) ==
  IF \E p \in 1..Len(j.v) : j.v[p].k = k /\ j.v[p].val.t = "list"
  THEN j.v[CHOOSE p \in 1..Len(j.v) : j.v[p].k = k].val.v
  ELSE <<None>>

\* C11: the records of a payload are none for null, the payload itself for
\* a list, for a mapping its `data` if that is a list, else its `results`
\* if that is a list, else the mapping alone, and none for anything else.
C11_ExtractRecords ==
  pc = "records_done" =>
    LET j == result
        records == written[1].records
    IN CASE j.t = "null" -> records = <<>>
         [] j.t = "list" -> records = j.v
         [] j.t = "dict" ->
              IF ListField(j, "data") # <<None>> THEN records = ListField(j, "data")
              ELSE IF ListField(j, "results") # <<None>>
              THEN records = ListField(j, "results")
              ELSE records = <<j>>
         [] OTHER -> records = <<>>

\* `results` comes first in the mapping and `data` is null: `results` is used
C11_Witness ==
  /\ pc = "records_done"
  /\ result = JDict(<<KV("results", RecordList(2)), KV("count", JNum(1)),
                      KV("data", JNull)>>)
  /\ written[1].records = <<Record(1), Record(2)>>

====
